---- MODULE Spec2Model ----
(***************************************************************************)
(* Model of main.py, the Markov Decision Process solver: class MDP with    *)
(* its constructor, find_optimal_policies (value iteration with a cached   *)
(* history of policy snapshots), _get_best_action and the rendering        *)
(* methods optimal_policy_strs / _optimal_policy_str.                      *)
(*                                                                         *)
(* Python floats are modelled as extended dyadic numbers: a finite value   *)
(* is an integer count of 1/Scale units, next to -inf, +inf and nan.  All  *)
(* probabilities and discounts of the model are multiples of 1/2, so every *)
(* finite value of the first MaxIter iterations is a multiple of 1/Scale   *)
(* and the float arithmetic of the program is exact on them.               *)
(***************************************************************************)
EXTENDS Integers, Sequences, FiniteSets, TLC

\* Largest argument of find_optimal_policies the model calls it with.
MaxIter == 3

\* Largest argument of optimal_policy_strs beyond MaxIter.
MaxEndExtra == 1

\* Largest number of parse_file calls on a constructed object.
MaxReparse == 1

RECURSIVE Pow4(_)
Pow4(k) == IF k <= 0 THEN 1 ELSE 4 * Pow4(k - 1)

\* Number of units in 1.0; one iteration divides by at most 4 (1/2 * 1/2).
Scale == Pow4(MaxIter)

(***************************************************************************)
(* Python float values and the operations the program applies to them.     *)
(***************************************************************************)
Fin(n) == [k |-> "fin", n |-> n]
NegInf == [k |-> "-inf", n |-> 0]
PosInf == [k |-> "inf", n |-> 0]
NaN == [k |-> "nan", n |-> 0]

\* An int or float literal with numerator num over 2, e.g. Half(1) is 0.5.
Half(num) == Fin((num * Scale) \div 2)
Whole(i) == Fin(i * Scale)

Sign(x) == IF x.k = "inf" THEN 1
           ELSE IF x.k = "-inf" THEN -1
           ELSE IF x.n > 0 THEN 1 ELSE IF x.n < 0 THEN -1 ELSE 0

\* x + y on floats.
FAdd(x, y) ==
    IF x.k = "nan" \/ y.k = "nan" THEN NaN
    ELSE IF x.k = "fin" /\ y.k = "fin" THEN Fin(x.n + y.n)
    ELSE IF x.k = "fin" THEN y
    ELSE IF y.k = "fin" THEN x
    ELSE IF x.k = y.k THEN x ELSE NaN

\* x * y on floats.
FMul(x, y) ==
    IF x.k = "nan" \/ y.k = "nan" THEN NaN
    ELSE IF x.k = "fin" /\ y.k = "fin" THEN Fin((x.n * y.n) \div Scale)
    ELSE IF Sign(x) = 0 \/ Sign(y) = 0 THEN NaN
    ELSE IF Sign(x) = Sign(y) THEN PosInf ELSE NegInf

\* x < y on floats: every comparison with nan is false.
FLt(x, y) ==
    IF x.k = "nan" \/ y.k = "nan" THEN FALSE
    ELSE IF x.k = "fin" /\ y.k = "fin" THEN x.n < y.n
    ELSE IF x.k = y.k THEN FALSE
    ELSE IF x.k = "-inf" \/ y.k = "inf" THEN TRUE ELSE FALSE

(***************************************************************************)
(* Python values None and str, and str() of them.                          *)
(***************************************************************************)
PyNone == [t |-> "None", s |-> ""]
PyStr(s) == [t |-> "str", s |-> s]
Str(v) == IF v.t = "None" THEN "None" ELSE v.s

\* format(x, ".4f"): round to 4 decimals, exact ties to even; inf and nan
\* are spelled out.
Format4f(x) ==
    IF x.k # "fin" THEN [txt |-> x.k, neg |-> FALSE, whole |-> 0, frac |-> 0]
    ELSE LET a == IF x.n < 0 THEN -x.n ELSE x.n
             q == (a * 10000) \div Scale
             r == (a * 10000) % Scale
             up == (2 * r > Scale) \/ (2 * r = Scale /\ q % 2 = 1)
             t == IF up THEN q + 1 ELSE q
         IN [txt |-> "num", neg |-> x.n < 0,
             whole |-> t \div 10000, frac |-> t % 10000]

\* float(discount) of the constructor: the value, or ValueError.
ParseFloat(tok) ==
    CASE tok = "0" -> [err |-> FALSE, v |-> Whole(0)]
      [] tok = "0.5" -> [err |-> FALSE, v |-> Half(1)]
      [] tok = "1" -> [err |-> FALSE, v |-> Whole(1)]
      [] tok = "1.5" -> [err |-> FALSE, v |-> Half(3)]
      [] tok = "-0.5" -> [err |-> FALSE, v |-> Half(-1)]
      [] tok = "nan" -> [err |-> FALSE, v |-> NaN]
      [] OTHER -> [err |-> TRUE, v |-> NaN]

(***************************************************************************)
(* The state collections the constructor is given.  A state collection is  *)
(* the ordered dict self.states, a sequence of states in file order; each  *)
(* state holds its reward and its ordered dict of actions, each action its *)
(* ordered dict of outcomes.  "S3" is a destination that is not a state.   *)
(***************************************************************************)
Outcome(to, p) == [to_state |-> to, probability |-> p]

Results == { <<Outcome("S1", Whole(1))>>,
             <<Outcome("S2", Whole(1))>>,
             <<Outcome("S1", Half(1)), Outcome("S2", Half(1))>>,
             <<Outcome("S3", Whole(1))>> }

Action(nm, res) == [name |-> nm, results |-> res]

OneAction == { <<Action("a", r)>> : r \in Results }
TwoActions == { <<Action("a", r1), Action("b", r2)>> : r1, r2 \in Results }

Rewards == {-4, 0, 10}

State(nm, rew, acts) == [name |-> nm, reward |-> rew, actions |-> acts]

\* What parse_file leaves in self.states for the input files of the model;
\* the empty collection is the constructor called without a file name.
Models ==
    { <<State("S1", r1, a1), State("S2", r2, a2)>> :
        r1 \in Rewards, r2 \in Rewards,
        a1 \in {<<>>} \cup OneAction \cup TwoActions,
        a2 \in {<<>>} \cup OneAction }
    \cup { <<>> }

\* The state collections parse_file is given on a constructed object: the
\* states in another order with other rewards and actions, a state whose
\* name is new, and a file without states.
ReparseModels ==
    { <<State("S2", -4, <<Action("a", <<Outcome("S2", Whole(1))>>)>>),
        State("S1", 10, <<Action("a", <<Outcome("S2", Half(1)),
                                        Outcome("S1", Half(1))>>)>>)>>,
      <<State("S9", 10, <<Action("a", <<Outcome("S9", Whole(1))>>)>>)>>,
      <<>> }

\* The discount arguments of the model, as given on the command line.
DiscountTokens == {"0", "0.5", "1", "1.5", "-0.5", "nan", "abc"}

StateOf(sts, nm) == sts[CHOOSE k \in 1..Len(sts) : sts[k].name = nm]
ActionNames(st) == { st.actions[k].name : k \in 1..Len(st.actions) }

(***************************************************************************)
(* A policy snapshot is an ordered dict from state name to a dict that is  *)
(* either empty or holds "action" and "j_val".                             *)
(***************************************************************************)
EmptyEntry(nm) == [state |-> nm, filled |-> FALSE, action |-> PyNone,
                   j_val |-> Whole(0)]
Entry(nm, act, val) == [state |-> nm, filled |-> TRUE, action |-> act,
                        j_val |-> val]

\* Position of key nm in the snapshot, 0 when the key is absent.
KeyPos(snap, nm) ==
    IF \E k \in 1..Len(snap) : snap[k].state = nm
    THEN CHOOSE k \in 1..Len(snap) : snap[k].state = nm
    ELSE 0

\* snap[nm] = e: replace the value of an existing key, else insert last.
SetKey(snap, nm, e) ==
    IF KeyPos(snap, nm) = 0 THEN Append(snap, e)
    ELSE [snap EXCEPT ![KeyPos(snap, nm)] = e]

\* optimal_policies[i][nm] = e, with i counted from 0.
SetPolicy(ops, i, nm, e) == [ops EXCEPT ![i + 1] = SetKey(ops[i + 1], nm, e)]

(***************************************************************************)
(* MDP._get_best_action                                                    *)
(***************************************************************************)
\* The inner loop: temp_max += probability * optimal_policies[iteration-1]
\* [to_state]["j_val"] over the outcomes from position k on.  A destination
\* that is no key of the snapshot, or whose dict is empty, raises KeyError.
RECURSIVE ExpectedValue(_, _, _, _)
ExpectedValue(results, prev, k, temp_max) ==
    IF k > Len(results) THEN [err |-> FALSE, v |-> temp_max]
    ELSE LET pos == KeyPos(prev, results[k].to_state)
         IN IF pos = 0 \/ ~prev[pos].filled
            THEN [err |-> TRUE, v |-> temp_max]
            ELSE ExpectedValue(results, prev, k + 1,
                     FAdd(temp_max,
                          FMul(results[k].probability, prev[pos].j_val)))

\* if curr_best[1] < temp_max: the comparison that replaces the best.
Better(curr_val, temp_max) == FLt(curr_val, temp_max)

\* The outer loop over the state's actions from position k on; curr_best is
\* the pair [action name, value] found so far.
RECURSIVE BestFrom(_, _, _, _)
BestFrom(actions, prev, k, curr_best) ==
    IF k > Len(actions) THEN [err |-> FALSE, best |-> curr_best]
    ELSE LET e == ExpectedValue(actions[k].results, prev, 1, Whole(0))
         IN IF e.err THEN [err |-> TRUE, best |-> curr_best]
            ELSE BestFrom(actions, prev, k + 1,
                     IF Better(curr_best[2], e.v)
                     THEN <<actions[k].name, e.v>>
                     ELSE curr_best)

\* _get_best_action(state, iteration): starts from ["", -inf].
GetBestAction(sts, ops, nm, iteration) ==
    BestFrom(StateOf(sts, nm).actions, ops[iteration], 1, <<"", NegInf>>)

(***************************************************************************)
(* MDP.find_optimal_policies                                               *)
(***************************************************************************)
\* self.states[state].reward + (self.discount * best_action[1])
JVal(reward, discount, best_val) ==
    FAdd(Whole(reward), FMul(discount, best_val))

\* The body of "for state in self.states" for iteration i, from the k-th
\* state on.  The result holds the history, whether KeyError was raised and
\* the list of (iteration, state) pairs whose best action was computed.
RECURSIVE StateLoop(_, _, _, _, _, _)
StateLoop(sts, discount, ops, i, k, computed) ==
    IF k > Len(sts) THEN [ops |-> ops, raised |-> FALSE, computed |-> computed]
    ELSE LET nm == sts[k].name
             ops1 == SetPolicy(ops, i, nm, EmptyEntry(nm))
             b == GetBestAction(sts, ops1, nm, i)
         IN IF b.err
            THEN [ops |-> ops1, raised |-> TRUE, computed |-> computed]
            ELSE StateLoop(sts, discount,
                     SetPolicy(ops1, i, nm,
                         Entry(nm, PyStr(b.best[1]),
                               JVal(sts[k].reward, discount, b.best[2]))),
                     i, k + 1, Append(computed, <<i, nm>>))

\* self.optimal_policies.append(dict())
AppendDict(ops) == Append(ops, <<>>)

\* The body of "for i in range(first, iterations)".
RECURSIVE IterationLoop(_, _, _, _, _, _)
IterationLoop(sts, discount, ops, i, iterations, computed) ==
    IF i >= iterations
    THEN [ops |-> ops, raised |-> FALSE, computed |-> computed]
    ELSE LET r == StateLoop(sts, discount, AppendDict(ops), i, 1, computed)
         IN IF r.raised THEN r
            ELSE IterationLoop(sts, discount, r.ops, i + 1, iterations,
                               r.computed)

\* find_optimal_policies that starts over from snapshot 0 on every call.
FindOptimalPoliciesFromScratch(sts, discount, ops, iterations) ==
    IterationLoop(sts, discount, SubSeq(ops, 1, 1), 1, iterations, <<>>)

\* find_optimal_policies whose range ends one index too late.
FindOptimalPoliciesOffByOne(sts, discount, ops, iterations) ==
    IF Len(ops) < iterations + 1
    THEN IterationLoop(sts, discount, ops, Len(ops), iterations + 1, <<>>)
    ELSE [ops |-> ops, raised |-> FALSE, computed |-> <<>>]

\* find_optimal_policies(iterations)
FindOptimalPolicies(sts, discount, ops, iterations) ==
    IF Len(ops) < iterations
    THEN IterationLoop(sts, discount, ops, Len(ops), iterations, <<>>)
    ELSE [ops |-> ops, raised |-> FALSE, computed |-> <<>>]

(***************************************************************************)
(* MDP.__init__                                                            *)
(***************************************************************************)
\* self.discount < 0 or self.discount > 1
OutOfRange(d) == FLt(d, Whole(0)) \/ FLt(Whole(1), d)

\* The message print(e) writes before sys.exit(1), "" when none is raised.
DiscountError(tok) ==
    IF ParseFloat(tok).err
    THEN "could not convert string to float: '" \o tok \o "'"
    ELSE IF OutOfRange(ParseFloat(tok).v)
    THEN "Discount factor must be floating point number within the interval [0, 1]"
    ELSE ""

\* Snapshot 0 with every value started at 0 instead of the reward.
InitialPolicyZero(sts) ==
    [k \in 1..Len(sts) |-> Entry(sts[k].name, PyNone, Whole(0))]

\* Snapshot 0: action None and j_val the state's reward, for every state.
InitialPolicy(sts) ==
    [k \in 1..Len(sts) |-> Entry(sts[k].name, PyNone, Whole(sts[k].reward))]

(***************************************************************************)
(* MDP.optimal_policy_strs and MDP._optimal_policy_str                     *)
(***************************************************************************)
Min(a, b) == IF a < b THEN a ELSE b

\* One line: the label number iteration+1 and, for every key of the
\* snapshot in order, the state, str(action) and the formatted value.
OptimalPolicyStr(ops, iteration) ==
    [label |-> iteration + 1,
     items |-> [k \in 1..Len(ops[iteration + 1]) |->
                  [state |-> ops[iteration + 1][k].state,
                   action |-> Str(ops[iteration + 1][k].action),
                   value |-> Format4f(ops[iteration + 1][k].j_val)]]]

\* _optimal_policy_str raises KeyError on a dict without "action".
StrRaises(ops, iteration) ==
    \E k \in 1..Len(ops[iteration + 1]) : ~ops[iteration + 1][k].filled

\* optimal_policy_strs(end): the lines of range(min(end, len)), or KeyError.
OptimalPolicyStrs(ops, end) ==
    LET n == Min(end, Len(ops))
    IN IF \E i \in 0..(n - 1) : StrRaises(ops, i)
       THEN [raised |-> TRUE, lines |-> <<>>]
       ELSE [raised |-> FALSE,
             lines |-> [j \in 1..n |-> OptimalPolicyStr(ops, j - 1)]]

(***************************************************************************)
(* State of the program.                                                   *)
(***************************************************************************)
VARIABLES
    pc,                \* "new", "ready" (an MDP exists) or "exited"
    discount,          \* self.discount
    states,            \* self.states
    optimal_policies,  \* self.optimal_policies
    printed,           \* what the constructor printed
    exit_code,         \* argument of sys.exit, -1 while running
    last,              \* the last call: its name, argument and outcome
    parse_calls        \* parse_file calls made on the constructed object

vars == <<pc, discount, states, optimal_policies, printed, exit_code, last,
          parse_calls>>

NoCall == [op |-> "none", arg |-> 0, len_before |-> 0, raised |-> FALSE,
           computed |-> <<>>, lines |-> <<>>]

Init ==
    /\ pc = "new"
    /\ discount = NaN
    /\ states = <<>>
    /\ optimal_policies = <<>>
    /\ printed = ""
    /\ exit_code = -1
    /\ last = NoCall
    /\ parse_calls = 0

\* main() called with a wrong number of arguments: usage message, exit 1.
BadArguments ==
    /\ pc = "new"
    /\ pc' = "exited"
    /\ printed' =
          "Please enter exactly two arguments: <input_file> <discount_factor>"
    /\ exit_code' = 1
    /\ last' = [NoCall EXCEPT !.op = "main"]
    /\ UNCHANGED <<discount, states, optimal_policies, parse_calls>>

\* MDP(discount, input_file_name)
Construct(tok, sts) ==
    /\ pc = "new"
    /\ IF DiscountError(tok) # ""
       THEN /\ pc' = "exited"
            /\ printed' = DiscountError(tok)
            /\ exit_code' = 1
            /\ discount' = IF ParseFloat(tok).err THEN discount
                           ELSE ParseFloat(tok).v
            /\ UNCHANGED <<states, optimal_policies>>
       ELSE /\ pc' = "ready"
            /\ discount' = ParseFloat(tok).v
            /\ states' = sts
            /\ optimal_policies' = <<InitialPolicy(sts)>>
            /\ UNCHANGED <<printed, exit_code>>
    /\ last' = [NoCall EXCEPT !.op = "init"]
    /\ UNCHANGED parse_calls

\* mdp.parse_file(input_file_name) on the constructed object: self.states is
\* replaced, the snapshot history is left as it is.
ParseFile(sts) ==
    /\ pc = "ready"
    /\ parse_calls < MaxReparse
    /\ states' = sts
    /\ parse_calls' = parse_calls + 1
    /\ last' = [NoCall EXCEPT !.op = "parse_file",
                              !.len_before = Len(optimal_policies)]
    /\ UNCHANGED <<pc, discount, optimal_policies, printed, exit_code>>

\* mdp.find_optimal_policies(iterations)
Extend(iterations) ==
    /\ pc = "ready"
    /\ LET r == FindOptimalPolicies(states, discount, optimal_policies,
                                    iterations)
       IN /\ optimal_policies' = r.ops
          /\ last' = [op |-> "extend", arg |-> iterations,
                      len_before |-> Len(optimal_policies),
                      raised |-> r.raised, computed |-> r.computed,
                      lines |-> <<>>]
    /\ UNCHANGED <<pc, discount, states, printed, exit_code, parse_calls>>

\* mdp.optimal_policy_strs(end)
Render(end) ==
    /\ pc = "ready"
    /\ LET r == OptimalPolicyStrs(optimal_policies, end)
       IN last' = [op |-> "render", arg |-> end,
                   len_before |-> Len(optimal_policies),
                   raised |-> r.raised, computed |-> <<>>,
                   lines |-> r.lines]
    /\ UNCHANGED <<pc, discount, states, optimal_policies, printed, exit_code,
                   parse_calls>>

Next ==
    \/ BadArguments
    \/ \E tok \in DiscountTokens, sts \in Models : Construct(tok, sts)
    \/ \E sts \in ReparseModels : ParseFile(sts)
    \/ \E iterations \in 0..MaxIter : Extend(iterations)
    \/ \E end \in 0..(MaxIter + MaxEndExtra) : Render(end)

Spec == Init /\ [][Next]_vars

\* The arithmetic of every cached finite value is exact in the model.
TypeOK ==
    /\ pc \in {"new", "ready", "exited"}
    /\ \A i \in 1..Len(optimal_policies) :
         \A k \in 1..Len(optimal_policies[i]) :
            optimal_policies[i][k].j_val.k = "fin" =>
               optimal_policies[i][k].j_val.n % Pow4(MaxIter - i + 1) = 0

(***************************************************************************)
(* Vocabulary of the properties.                                           *)
(***************************************************************************)
Max(a, b) == IF a > b THEN a ELSE b

\* self.states is still the collection the object was constructed with.
ConstructedStates == parse_calls = 0

\* Positions (snapshot index from 1, key position) of the dicts that hold
\* an action and a value in the snapshots after snapshot 0.
LaterEntries ==
    { <<i, k>> \in (2..Len(optimal_policies)) \X (1..Len(states)) :
        k <= Len(optimal_policies[i]) /\ optimal_policies[i][k].filled }

\* expected(a) of the k-th action of st over the snapshot prev.
Expected(st, prev, k) == ExpectedValue(st.actions[k].results, prev, 1, Whole(0)).v

\* The outcomes of the action the entry records; none when the entry records
\* no action of the state.
SelectedResults(st, e) ==
    IF e.action.t = "str" /\ e.action.s \in ActionNames(st)
    THEN st.actions[CHOOSE k \in 1..Len(st.actions) :
                        st.actions[k].name = e.action.s].results
    ELSE <<>>

\* Position of the first action whose expected value no other action exceeds.
FirstMaximal(st, prev) ==
    CHOOSE k \in 1..Len(st.actions) :
        /\ \A j \in 1..Len(st.actions) :
              ~FLt(Expected(st, prev, k), Expected(st, prev, j))
        /\ \A j \in 1..(k - 1) :
              \E m \in 1..Len(st.actions) :
                 FLt(Expected(st, prev, j), Expected(st, prev, m))

\* C1: for every cached iteration i > 0 and every state s, the value of s in
\* snapshot i is reward(s) + discount * (sum over the outcomes of the action
\* selected for s of p * value of the destination in snapshot i-1).
C1_ValueIsBackupOfPrevious ==
    ConstructedStates => \A p \in LaterEntries :
        LET e == optimal_policies[p[1]][p[2]]
            st == StateOf(states, e.state)
        IN e.j_val = JVal(st.reward, discount,
                          ExpectedValue(SelectedResults(st, e),
                                        optimal_policies[p[1] - 1], 1,
                                        Whole(0)).v)

\* C2: for every state with at least one action and every iteration i > 0,
\* the recorded action is the first one, in the state's action order, whose
\* expected value over snapshot i-1 is maximal.
C2_FirstMaximalActionSelected ==
    ConstructedStates => \A p \in LaterEntries :
        LET e == optimal_policies[p[1]][p[2]]
            st == StateOf(states, e.state)
        IN Len(st.actions) > 0 =>
              e.action = PyStr(st.actions[
                             FirstMaximal(st, optimal_policies[p[1] - 1])].name)

\* C3: a state with no actions has the value reward(s) and the action None
\* in every cached snapshot, and is rendered with "None" and its reward.
C3_NoActionStateKeepsReward ==
    ConstructedStates => \A i \in 1..Len(optimal_policies) :
        \A k \in 1..Len(optimal_policies[i]) :
            LET e == optimal_policies[i][k]
                st == StateOf(states, e.state)
            IN (e.filled /\ Len(st.actions) = 0) =>
                  /\ e.action = PyNone
                  /\ e.j_val = Whole(st.reward)
                  /\ Str(e.action) = "None"
                  /\ Format4f(e.j_val) = Format4f(Whole(st.reward))

\* C4: a find_optimal_policies call that fails on an unknown destination
\* state leaves the snapshot history as it was before the call.
C4_FailedExtendLeavesHistory ==
    [][(last'.op = "extend" /\ last'.raised) =>
          optimal_policies' = optimal_policies]_vars

\* C5: the snapshot history is append-only: its length never decreases,
\* every cached snapshot keeps its content, and a call whose argument does
\* not exceed the cached length computes nothing.
C5_HistoryAppendOnly ==
    [][pc = "ready" =>
          /\ Len(optimal_policies') >= Len(optimal_policies)
          /\ \A i \in 1..Len(optimal_policies) :
                optimal_policies'[i] = optimal_policies[i]
          /\ (last'.op = "extend" /\ last'.arg <= Len(optimal_policies)) =>
                /\ last'.computed = <<>>
                /\ optimal_policies' = optimal_policies]_vars

\* extend(k) has been followed by extend(j) with 0 < j < k.
C5_Witness ==
    /\ last.op = "extend"
    /\ last.arg > 0
    /\ last.arg < last.len_before
    /\ Len(optimal_policies) = MaxIter
    /\ Len(states) > 0

\* C6: on a constructed object, whatever calls of find_optimal_policies and
\* optimal_policy_strs were made, snapshot 0 exists and gives every state, in stored
\* order, the action None and exactly its reward; right after construction
\* it is the only snapshot.
C6_SnapshotZeroIsReward ==
    (pc = "ready" /\ ConstructedStates) =>
       /\ Len(optimal_policies) >= 1
       /\ last.op = "init" => Len(optimal_policies) = 1
       /\ Len(optimal_policies[1]) = Len(states)
       /\ \A k \in 1..Len(states) :
             /\ optimal_policies[1][k].state = states[k].name
             /\ optimal_policies[1][k].filled
             /\ optimal_policies[1][k].action.t = "None"
             /\ optimal_policies[1][k].j_val.k = "fin"
             /\ optimal_policies[1][k].j_val.n = states[k].reward * Scale

\* Snapshots have been appended after snapshot 0 of a model with rewards.
C6_Witness ==
    /\ pc = "ready"
    /\ ConstructedStates
    /\ last.op = "extend"
    /\ Len(optimal_policies) = MaxIter
    /\ \E k \in 1..Len(states) : states[k].reward # 0

\* C7: after a successful find_optimal_policies(n) the history has exactly
\* max(length before, n) snapshots, and the best action was computed exactly
\* for the indices from the old length to n-1, in increasing order and for
\* every state in stored order; nothing is computed when n <= old length.
C7_ExtendComputesMissingSuffix ==
    (last.op = "extend" /\ ~last.raised) =>
       /\ Len(optimal_policies) >= last.arg
       /\ Len(optimal_policies) = Max(last.len_before, last.arg)
       /\ Len(last.computed) =
             (Max(last.len_before, last.arg) - last.len_before) * Len(states)
       /\ \A j \in 1..Len(last.computed) :
             /\ last.computed[j][1] =
                   last.len_before + ((j - 1) \div Len(states))
             /\ last.computed[j][2] =
                   states[((j - 1) % Len(states)) + 1].name
       /\ \A i \in (last.len_before + 1)..Len(optimal_policies) :
             /\ Len(optimal_policies[i]) = Len(states)
             /\ \A k \in 1..Len(states) :
                   /\ optimal_policies[i][k].state = states[k].name
                   /\ optimal_policies[i][k].filled

\* A successful call has appended a suffix to a history of several snapshots.
C7_Witness ==
    /\ last.op = "extend"
    /\ ~last.raised
    /\ last.len_before > 1
    /\ last.arg > last.len_before
    /\ Len(states) > 0

\* C8: optimal_policy_strs(end) leaves the history unchanged and returns
\* exactly min(end, cached snapshots) lines, the line of snapshot i labelled
\* i+1 and listing every state in stored order.
C8_RenderIsPureRead ==
    [][(last'.op = "render" /\ ConstructedStates) =>
          /\ optimal_policies' = optimal_policies
          /\ ~last'.raised
          /\ Len(last'.lines) = Min(last'.arg, Len(optimal_policies))
          /\ \A i \in 1..Len(last'.lines) :
                /\ last'.lines[i].label = i
                /\ Len(last'.lines[i].items) = Len(states)
                /\ \A k \in 1..Len(states) :
                      last'.lines[i].items[k].state = states[k].name]_vars

\* C9: a discount outside [0, 1] makes the constructor print a message and
\* exit with code 1 before states or snapshots exist; an engine exists only
\* for a discount within [0, 1].
C9_DiscountValidated ==
    /\ pc = "ready" =>
          /\ discount.k = "fin"
          /\ 0 <= discount.n
          /\ discount.n <= Scale
    /\ pc = "exited" =>
          /\ exit_code = 1
          /\ printed # ""
          /\ states = <<>>
          /\ optimal_policies = <<>>

\* C10: for every state with at least one action and every cached iteration
\* i > 0, the recorded action is one of the state's own action names.
C10_RecordedActionIsOwnAction ==
    ConstructedStates => \A p \in LaterEntries :
        LET e == optimal_policies[p[1]][p[2]]
            st == StateOf(states, e.state)
        IN Len(st.actions) > 0 =>
              /\ e.action.t = "str"
              /\ e.action.s \in ActionNames(st)

====
